---- MODULE Spec2Model ----
(***************************************************************************)
(* Model of basic_conv_nets.ipynb: the naive 2-D cross-correlation corr2d  *)
(* and the padded, strided, biased operator Conv.                          *)
(*                                                                         *)
(* A tensor of rank 2 is a record [h, w, d]: its shape (h, w) and its      *)
(* elements d[<<r, c>>], indexed from 0 as in the source.  Elements are    *)
(* integers: on integers of this size float32 arithmetic is exact, so the  *)
(* order of a summation does not matter.  A pair such as pad, stride or    *)
(* kernel_size is a function on 0..1, so self.pad[0] reads pad[0].         *)
(***************************************************************************)
EXTENDS Integers, FiniteSets, Sequences, TLC

VARIABLES
  X,     \* the caller's input tensor
  K,     \* the caller's kernel tensor, the second argument of corr2d
  conv,  \* the Conv instance: kernel_size, weights, bias, pad, stride
  ret,   \* what the last call handed back
  last,  \* the last operation: "none", "corr2d", "conv" or "set"
  seen   \* history: one earlier call, its arguments and what it handed back

vars == <<X, K, conv, ret, last, seen>>

(* Bounds of the model *)
MaxH == 3
MaxK == 2
MaxPad == 1
MaxStride == 2

Seeds == {0, 1}
BiasVals == {-2, 3}

Pair(a, b) == [i \in 0..1 |-> IF i = 0 THEN a ELSE b]

Abs(n) == IF n < 0 THEN -n ELSE n
Min(a, b) == IF a < b THEN a ELSE b
Max(a, b) == IF a > b THEN a ELSE b

(* ----------------------------- tensors --------------------------------- *)

(* torch.rand: some value for element (r, c); seed picks one of the draws *)
Elem(seed, r, c) ==
  ((((3 + (2 * seed)) * r) + ((5 + seed) * (c * c)) + 1 + seed) % 11) - 4

Rand(h, w, seed) ==
  [h |-> h, w |-> w,
   d |-> [p \in (0..(h - 1)) \X (0..(w - 1)) |-> Elem(seed, p[1], p[2])]]

(* torch.zeros((h, w)), h >= 0 and w >= 0 *)
Zeros(h, w) ==
  [h |-> h, w |-> w, d |-> [p \in (0..(h - 1)) \X (0..(w - 1)) |-> 0]]

(* One bound of a Python slice on an axis of length len: a negative index
   counts from the end, and the bound is clamped to 0..len. *)
SliceIndex(len, a) == IF a < 0 THEN Max(a + len, 0) ELSE Min(a, len)

(* x[r0 : r1, c0 : c1] *)
Window(x, r0, r1, c0, c1) ==
  LET rlo == SliceIndex(x.h, r0)
      rhi == SliceIndex(x.h, r1)
      clo == SliceIndex(x.w, c0)
      chi == SliceIndex(x.w, c1)
      hh  == Max(rhi - rlo, 0)
      ww  == Max(chi - clo, 0)
  IN [h |-> hh, w |-> ww,
      d |-> [p \in (0..(hh - 1)) \X (0..(ww - 1)) |->
               x.d[<<rlo + p[1], clo + p[2]>>]]]

(* Whether a * b broadcasts: on each axis the sizes are equal or one is 1 *)
Broadcastable(a, b) ==
  /\ (a.h = b.h \/ a.h = 1 \/ b.h = 1)
  /\ (a.w = b.w \/ a.w = 1 \/ b.w = 1)

(* a * b, element-wise with broadcasting *)
Mul(a, b) ==
  LET hh == IF a.h = 1 THEN b.h ELSE a.h
      ww == IF a.w = 1 THEN b.w ELSE a.w
  IN [h |-> hh, w |-> ww,
      d |-> [p \in (0..(hh - 1)) \X (0..(ww - 1)) |->
               a.d[<<IF a.h = 1 THEN 0 ELSE p[1], IF a.w = 1 THEN 0 ELSE p[2]>>]
             * b.d[<<IF b.h = 1 THEN 0 ELSE p[1], IF b.w = 1 THEN 0 ELSE p[2]>>]]]

RECURSIVE SumRow(_, _, _)
SumRow(a, r, n) ==
  IF n = 0 THEN 0 ELSE SumRow(a, r, n - 1) + a.d[<<r, n - 1>>]

RECURSIVE SumRows(_, _)
SumRows(a, n) ==
  IF n = 0 THEN 0 ELSE SumRows(a, n - 1) + SumRow(a, n - 1, a.w)

(* a.sum() *)
Sum(a) == SumRows(a, a.h)

(* F.pad(x, [left, right, top, bottom]): constant mode, value 0 *)
FPad(x, left, right, top, bottom) ==
  LET hh == x.h + top + bottom
      ww == x.w + left + right
  IN [h |-> hh, w |-> ww,
      d |-> [p \in (0..(hh - 1)) \X (0..(ww - 1)) |->
               IF /\ p[1] >= top /\ p[1] < top + x.h
                  /\ p[2] >= left /\ p[2] < left + x.w
               THEN x.d[<<p[1] - top, p[2] - left>>]
               ELSE 0]]

(* int(a / b), b # 0: the quotient truncated toward zero *)
IntDiv(a, b) ==
  IF (a >= 0) = (b > 0) THEN Abs(a) \div Abs(b) ELSE -(Abs(a) \div Abs(b))

(* What a call hands back: a tensor, or a raised exception and no tensor *)
Returned(t) == [kind |-> "tensor", val |-> t, err |-> "none"]
Raised(e) == [kind |-> "error", val |-> Zeros(0, 0), err |-> e]
NoCall == [kind |-> "none", val |-> Zeros(0, 0), err |-> "none"]

(* ------------------------------ corr2d --------------------------------- *)

corr2dShapeNoPlusOne(x, k) == Pair(x.h - k.h, x.w - k.w)

(* The shape given to torch.zeros: (X.shape[0] - h + 1, X.shape[1] - w + 1) *)
corr2dShape(x, k) == Pair(x.h - k.h + 1, x.w - k.w + 1)

corr2dWindowFlipped(x, k, i, j) ==
  LET win == Window(x, i, i + k.h, j, j + k.w)
  IN [win EXCEPT !.d = [p \in DOMAIN win.d |->
                          win.d[<<win.h - 1 - p[1], win.w - 1 - p[2]>>]]]

(* X[i : i + h, j : j + w] *)
corr2dWindow(x, k, i, j) == Window(x, i, i + k.h, j, j + k.w)

(* corr2d(X, k): what it returns, and its two arguments after the call
   (the function assigns to y alone) *)
corr2d(x, k) ==
  LET shape == corr2dShape(x, k)
      cells == (0..(shape[0] - 1)) \X (0..(shape[1] - 1))
  IN [x |-> x, k |-> k,
      ret |->
        IF shape[0] < 0 \/ shape[1] < 0
        THEN Raised("RuntimeError")
        ELSE IF \E p \in cells : ~Broadcastable(k, corr2dWindow(x, k, p[1], p[2]))
        THEN Raised("RuntimeError")
        ELSE Returned([h |-> shape[0], w |-> shape[1],
                       d |-> [p \in cells |->
                                Sum(Mul(k, corr2dWindow(x, k, p[1], p[2])))]])]

(* ------------------------------- Conv ---------------------------------- *)

(* Conv.__init__: w and b are the values torch.rand draws *)
Conv_init(kernel_size, bias, pad, stride, w, b) ==
  [kernel_size |-> kernel_size,
   weights |-> w,
   bias |-> IF bias THEN b ELSE 0,
   pad |-> pad,
   stride |-> stride]

PadArgsSwapped(self) == <<self.pad[0], self.pad[0], self.pad[1], self.pad[1]>>

(* The list given to F.pad: [left, right, top, bottom] *)
PadArgs(self) == <<self.pad[1], self.pad[1], self.pad[0], self.pad[0]>>

(* F.pad(x, [self.pad[1], self.pad[1], self.pad[0], self.pad[0]]) *)
Padded(self, x) ==
  LET a == PadArgs(self) IN FPad(x, a[1], a[2], a[3], a[4])

ArgAfterPadInPlace(x, xp) == xp

(* The caller's tensor after x = F.pad(x, ...): F.pad returns a new tensor
   and the assignment rebinds the local name only *)
ArgAfterPad(x, xp) == x

OutDimNoStride(size, stride, kernel) == IntDiv(size - kernel, stride)

OutDimCeil(size, stride, kernel) ==
  IF (size + stride - kernel) % stride = 0
  THEN IntDiv(size + stride - kernel, stride)
  ELSE IntDiv(size + stride - kernel, stride) + 1

(* int((size + stride - kernel) / stride), stride # 0 *)
OutDim(size, stride, kernel) == IntDiv(size + stride - kernel, stride)

ConvWindowUnitStride(self, xp, i, j) ==
  Window(xp, i, i + self.kernel_size[0], j, j + self.kernel_size[1])

(* x[i * s0 : i * s0 + k0, j * s1 : j * s1 + k1] of the padded x *)
ConvWindow(self, xp, i, j) ==
  Window(xp, i * self.stride[0], i * self.stride[0] + self.kernel_size[0],
             j * self.stride[1], j * self.stride[1] + self.kernel_size[1])

(* Conv.__call__(self, x): what it returns, and self and the argument
   after the call *)
Conv_call(self, x) ==
  LET xp == Padded(self, x)
      h  == OutDim(xp.h, self.stride[0], self.kernel_size[0])
      w  == OutDim(xp.w, self.stride[1], self.kernel_size[1])
      cells == (0..(h - 1)) \X (0..(w - 1))
  IN [x |-> ArgAfterPad(x, xp), self |-> self,
      ret |->
        IF self.stride[0] = 0 \/ self.stride[1] = 0
        THEN Raised("ZeroDivisionError")
        ELSE IF h < 0 \/ w < 0
        THEN Raised("RuntimeError")
        ELSE IF \E p \in cells :
                  ~Broadcastable(ConvWindow(self, xp, p[1], p[2]), self.weights)
        THEN Raised("RuntimeError")
        ELSE Returned([h |-> h, w |-> w,
                       d |-> [p \in cells |->
                                Sum(Mul(ConvWindow(self, xp, p[1], p[2]),
                                        self.weights)) + self.bias]])]

(* ----------------------------- the inputs ------------------------------ *)

Inputs == {Rand(h, w, s) : h \in 1..MaxH, w \in 1..MaxH, s \in Seeds}
Kernels == {Rand(h, w, s) : h \in 1..MaxK, w \in 1..MaxK, s \in Seeds}
Pads == {Pair(a, b) : a \in 0..MaxPad, b \in 0..MaxPad}
Strides == {Pair(a, b) : a \in 1..MaxStride, b \in 1..MaxStride}
Biases == {0} \cup BiasVals

(* Some instance: the constructor's result, or one whose weights and bias a
   caller has overwritten with tensors of the same shapes *)
Convs(strides) ==
  {Conv_init(Pair(w.h, w.w), bias, pad, stride, w, b) :
     w \in Kernels, bias \in BOOLEAN, pad \in Pads, stride \in strides,
     b \in BiasVals}

DefaultConv == Conv_init(Pair(1, 1), FALSE, Pair(0, 0), Pair(0, 0), Rand(1, 1, 0), 0)

(* ------------------------------ actions -------------------------------- *)

NoneSeen == [op |-> "none", args |-> <<>>, ret |-> NoCall, again |-> FALSE]

(* The history after a call: the first call is remembered; a later call
   replaces the remembered one or not, and one whose operation and arguments
   are those of the remembered call is marked *)
Remember(op, args, r) ==
  \/ seen' = [op |-> op, args |-> args, ret |-> r, again |-> FALSE]
  \/ /\ seen.op = op /\ seen.args = args
     /\ seen' = [seen EXCEPT !.again = TRUE]
  \/ /\ seen.op # "none" /\ ~(seen.op = op /\ seen.args = args)
     /\ seen' = seen

(* Y = corr2d(X, K) *)
Corr2dCall ==
  LET out == corr2d(X, K)
  IN /\ ret' = out.ret
     /\ X' = out.x
     /\ K' = out.k
     /\ last' = "corr2d"
     /\ Remember("corr2d", <<X, K>>, out.ret)
     /\ UNCHANGED conv

(* corr(x) *)
ConvCall ==
  LET out == Conv_call(conv, X)
  IN /\ ret' = out.ret
     /\ X' = out.x
     /\ conv' = out.self
     /\ last' = "conv"
     /\ Remember("conv", <<X, conv>>, out.ret)
     /\ UNCHANGED K

(* corr.weights = conv2d.weight.reshape(ks) *)
SetWeights(w) ==
  /\ w.h = conv.kernel_size[0] /\ w.w = conv.kernel_size[1]
  /\ conv' = [conv EXCEPT !.weights = w]
  /\ last' = "set"
  /\ UNCHANGED <<X, K, ret, seen>>

(* corr.bias = conv2d.bias.reshape(-1) *)
SetBias(b) ==
  /\ conv' = [conv EXCEPT !.bias = b]
  /\ last' = "set"
  /\ UNCHANGED <<X, K, ret, seen>>

(* An instance and an input, then calls of corr2d and of the instance in any
   order, the caller overwriting weights and bias in between *)
Init ==
  /\ X \in {Rand(n, n, 0) : n \in 1..MaxH}
  /\ \E k \in 1..MaxK, pad \in Pads, s \in 1..MaxStride :
       conv = Conv_init(Pair(k, k), TRUE, pad, Pair(s, s), Rand(k, k, 0), 3)
  /\ K = conv.weights
  /\ ret = NoCall
  /\ last = "none"
  /\ seen = NoneSeen

Next ==
  \/ Corr2dCall
  \/ ConvCall
  \/ \E w \in Kernels : SetWeights(w)
  \/ \E b \in BiasVals : SetBias(b)

Spec == Init /\ [][Next]_vars

(* corr2d on every input and kernel of the bounds *)
InitCorr ==
  /\ X \in Inputs
  /\ K \in Inputs
  /\ conv = DefaultConv
  /\ ret = NoCall
  /\ last = "none"
  /\ seen = NoneSeen

NextCorr == last = "none" /\ Corr2dCall

SpecCorr == InitCorr /\ [][NextCorr]_vars

(* The two layers the notebook builds: 3x3 with padding 1 on an 8x8 input,
   and 2x2 with stride (3, 2) on a 5x5 input *)
NotebookCases ==
  {<<Rand(8, 8, 0),
     Conv_init(Pair(3, 3), TRUE, Pair(1, 1), Pair(1, 1), Rand(3, 3, 0), 3)>>,
   <<Rand(5, 5, 0),
     Conv_init(Pair(2, 2), TRUE, Pair(0, 0), Pair(3, 2), Rand(2, 2, 0), 3)>>}

(* Conv with strides >= 1 on every input and instance of the bounds *)
InitConv ==
  /\ \E c \in (Inputs \X Convs(Strides)) \cup NotebookCases :
       X = c[1] /\ conv = c[2]
  /\ K = Rand(1, 1, 0)
  /\ ret = NoCall
  /\ last = "none"
  /\ seen = NoneSeen

NextConv == last = "none" /\ ConvCall

SpecConv == InitConv /\ [][NextConv]_vars

(* Conv with a stride component < 1, the constructor's default (0, 0) among
   them *)
BadStrides ==
  {Pair(a, b) : a \in (-1)..MaxStride, b \in (-1)..MaxStride} \ Strides

InitStride ==
  /\ X \in Inputs
  /\ conv \in Convs(BadStrides)
  /\ K = Rand(1, 1, 0)
  /\ ret = NoCall
  /\ last = "none"
  /\ seen = NoneSeen

NextStride == last = "none" /\ ConvCall

SpecStride == InitStride /\ [][NextStride]_vars

(* ------------------------------ claims --------------------------------- *)

(* The sum of f over its domain *)
RECURSIVE SigmaOn(_, _)
SigmaOn(f, S) ==
  IF S = {} THEN 0
  ELSE LET e == CHOOSE e \in S : TRUE IN f[e] + SigmaOn(f, S \ {e})

Sigma(f) == SigmaOn(f, DOMAIN f)

Cells(h, w) == (0..(h - 1)) \X (0..(w - 1))

(* C1: for a kernel no larger than the input, corr2d returns a tensor of
   shape (H-kh+1, W-kw+1) whose element (i, j) is the sum over (a, b) of
   K[a,b] * X[i+a, j+b]. *)
C1_Corr2dIsCrossCorrelation ==
  (last = "corr2d" /\ K.h <= X.h /\ K.w <= X.w) =>
    /\ ret.kind = "tensor"
    /\ ret.val.h = X.h - K.h + 1
    /\ ret.val.w = X.w - K.w + 1
    /\ DOMAIN ret.val.d = Cells(X.h - K.h + 1, X.w - K.w + 1)
    /\ \A p \in DOMAIN ret.val.d :
         ret.val.d[p] =
           Sigma([q \in Cells(K.h, K.w) |->
                    K.d[q] * X.d[<<p[1] + q[1], p[2] + q[2]>>]])

C1_Witness ==
  /\ last = "corr2d"
  /\ X.h = 3 /\ X.w = 3 /\ K.h = 2 /\ K.w = 2
  /\ ret.kind = "tensor"
  /\ \E p \in DOMAIN ret.val.d : ret.val.d[p] # 0

(* C5: with a kernel larger than the input along some axis, corr2d raises
   and returns no tensor. *)
C5_OversizedKernelRaises ==
  (last = "corr2d" /\ (K.h > X.h \/ K.w > X.w)) => ret.kind = "error"

(* X with element (p, q) increased by 1 *)
Bumped(x, pq) == [x EXCEPT !.d[pq] = @ + 1]

(* C8: for a kernel no larger than the input, increasing X[p,q] by 1 changes
   sum(corr2d(X, K)) by the sum of K[a,b] over the (a, b) with
   0 <= p-a <= H-kh and 0 <= q-b <= W-kw. *)
C8_Corr2dGradient ==
  (last = "corr2d" /\ K.h <= X.h /\ K.w <= X.w) =>
    /\ ret.kind = "tensor"
    /\ \A pq \in Cells(X.h, X.w) :
         LET up == corr2d(Bumped(X, pq), K).ret
             touching == {q \in Cells(K.h, K.w) :
                            /\ 0 <= pq[1] - q[1] /\ pq[1] - q[1] <= X.h - K.h
                            /\ 0 <= pq[2] - q[2] /\ pq[2] - q[2] <= X.w - K.w}
         IN /\ up.kind = "tensor"
            /\ Sigma(up.val.d) - Sigma(ret.val.d)
                 = Sigma([q \in touching |-> K.d[q]])

C8_Witness ==
  /\ last = "corr2d"
  /\ X.h = 3 /\ X.w = 2 /\ K.h = 2 /\ K.w = 1
  /\ ret.kind = "tensor"
  /\ Sigma(corr2d(Bumped(X, <<1, 0>>), K).ret.val.d) - Sigma(ret.val.d)
       = K.d[<<0, 0>>] + K.d[<<1, 0>>]
  /\ K.d[<<0, 0>>] + K.d[<<1, 0>>] # K.d[<<0, 0>>]

(* The padded sizes and the sizes the reference operator gives *)
Hp == X.h + 2 * conv.pad[0]
Wp == X.w + 2 * conv.pad[1]
kh == conv.kernel_size[0]
kw == conv.kernel_size[1]
sh == conv.stride[0]
sw == conv.stride[1]

ValidConfig ==
  /\ conv.pad[0] >= 0 /\ conv.pad[1] >= 0
  /\ sh >= 1 /\ sw >= 1
  /\ kh <= Hp /\ kw <= Wp

(* C2: for stride >= 1, padding >= 0 and a kernel no larger than the padded
   input, Conv returns a tensor of shape (floor((H+2ph-kh)/sh)+1,
   floor((W+2pw-kw)/sw)+1); 3x3 with padding 1 on 8x8 gives (8, 8), and 2x2
   with stride (3, 2) on 5x5 gives (2, 2). *)
C2_ConvOutputShape ==
  (last = "conv" /\ ValidConfig) =>
    /\ ret.kind = "tensor"
    /\ ret.val.h = ((X.h + 2 * conv.pad[0] - kh) \div sh) + 1
    /\ ret.val.w = ((X.w + 2 * conv.pad[1] - kw) \div sw) + 1
    /\ DOMAIN ret.val.d = Cells(ret.val.h, ret.val.w)
    /\ (/\ X.h = 8 /\ X.w = 8 /\ conv.kernel_size = Pair(3, 3)
        /\ conv.pad = Pair(1, 1) /\ conv.stride = Pair(1, 1))
         => (ret.val.h = 8 /\ ret.val.w = 8)
    /\ (/\ X.h = 5 /\ X.w = 5 /\ conv.kernel_size = Pair(2, 2)
        /\ conv.pad = Pair(0, 0) /\ conv.stride = Pair(3, 2))
         => (ret.val.h = 2 /\ ret.val.w = 2)

C2_Witness ==
  /\ last = "conv"
  /\ X.h = 5 /\ X.w = 5 /\ conv.kernel_size = Pair(2, 2)
  /\ conv.pad = Pair(0, 0) /\ conv.stride = Pair(3, 2)
  /\ ret.kind = "tensor" /\ ret.val.h = 2 /\ ret.val.w = 2

(* C3: in a valid configuration every element (i, j) of Conv's output is the
   sum over (a, b) of weights[a,b] * P[i*sh+a, j*sw+b] plus the bias, P being
   the input with ph zero rows above and below and pw zero columns left and
   right. *)
C3_ConvIsReferenceConvolution ==
  (last = "conv" /\ ValidConfig) =>
    /\ ret.kind = "tensor"
    /\ \A p \in DOMAIN ret.val.d :
         LET P(r, c) ==
               IF /\ conv.pad[0] <= r /\ r < conv.pad[0] + X.h
                  /\ conv.pad[1] <= c /\ c < conv.pad[1] + X.w
               THEN X.d[<<r - conv.pad[0], c - conv.pad[1]>>]
               ELSE 0
         IN ret.val.d[p] =
              Sigma([q \in Cells(kh, kw) |->
                       conv.weights.d[q] * P(p[1] * sh + q[1], p[2] * sw + q[2])])
              + conv.bias

C3_Witness ==
  /\ last = "conv"
  /\ ValidConfig
  /\ conv.pad = Pair(0, 1) /\ conv.stride = Pair(2, 1) /\ conv.bias # 0
  /\ X.h = 3 /\ X.w = 2 /\ kh = 1 /\ kw = 2
  /\ ret.kind = "tensor" /\ ret.val.h = 2 /\ ret.val.w = 3
  /\ ret.val.d[<<1, 0>>] = conv.weights.d[<<0, 1>>] * X.d[<<2, 0>>] + conv.bias

(* C6: with stride >= 1, when the computed output height or width is <= 0
   the call raises and returns no tensor. *)
C6_NonPositiveOutputRaises ==
  (/\ last = "conv" /\ sh >= 1 /\ sw >= 1
   /\ (OutDim(Hp, sh, kh) <= 0 \/ OutDim(Wp, sw, kw) <= 0))
    => ret.kind = "error"

(* C9: with size >= 0, kernel >= 1, stride >= 1 and size + stride - kernel
   >= 0, the output dimension Conv computes, (size + stride - kernel) /
   stride truncated toward zero, is floor((size - kernel) / stride) + 1. *)
C9_TruncationIsFloorPlusOne ==
  (last = "conv" /\ sh >= 1 /\ sw >= 1) =>
    /\ \A size \in 0..Hp :
         (size + sh - kh >= 0) => OutDim(size, sh, kh) = ((size - kh) \div sh) + 1
    /\ \A size \in 0..Wp :
         (size + sw - kw >= 0) => OutDim(size, sw, kw) = ((size - kw) \div sw) + 1
    /\ ret.kind = "tensor" =>
         (ret.val.h = OutDim(Hp, sh, kh) /\ ret.val.w = OutDim(Wp, sw, kw))

C9_Witness ==
  /\ last = "conv" /\ sh = 2 /\ sw = 2
  /\ Hp - kh = -1 /\ OutDim(Hp, sh, kh) = 0
  /\ Wp - kw = 3 /\ OutDim(Wp, sw, kw) = 2
  /\ ret.kind = "tensor"

(* C10: with stride >= 1 and a kernel no larger than the padded input, every
   window the loop reads lies inside the padded input, i*sh + kh <= H + 2ph
   and j*sw + kw <= W + 2pw, and has exactly kh x kw elements. *)
C10_WindowsInsidePaddedInput ==
  (last = "conv" /\ ValidConfig) =>
    \A p \in Cells(OutDim(Hp, sh, kh), OutDim(Wp, sw, kw)) :
      LET win == ConvWindow(conv, Padded(conv, X), p[1], p[2])
      IN /\ p[1] * sh + kh <= X.h + 2 * conv.pad[0]
         /\ p[2] * sw + kw <= X.w + 2 * conv.pad[1]
         /\ win.h = kh /\ win.w = kw
         /\ DOMAIN win.d = Cells(kh, kw)

C10_Witness ==
  /\ last = "conv" /\ ValidConfig
  /\ sh = 2 /\ Hp = 5 /\ kh = 2
  /\ OutDim(Hp, sh, kh) = 2
  /\ ret.kind = "tensor" /\ ret.val.h = 2

(* C4: a call of corr2d or of the instance leaves the caller's tensors and
   the instance's weights, bias, pad, stride and kernel_size as they were,
   and a call with the arguments of an earlier call hands back what that
   call handed back. *)
C4_CallsArePure ==
  [][/\ last' = "corr2d" =>
          /\ X' = X /\ K' = K /\ conv' = conv
          /\ (seen.op = "corr2d" /\ seen.args = <<X, K>>) => ret' = seen.ret
     /\ last' = "conv" =>
          /\ X' = X /\ K' = K /\ conv' = conv
          /\ (seen.op = "conv" /\ seen.args = <<X, conv>>) => ret' = seen.ret
    ]_vars

C4_Witness ==
  /\ last = "conv" /\ seen.op = "conv" /\ seen.again
  /\ seen.args = <<X, conv>> /\ seen.ret = ret
  /\ conv.pad = Pair(1, 1) /\ conv.weights # K
  /\ ret.kind = "tensor" /\ ret.val.h > 1

(* C7: with a stride component < 1, zero or negative, every call raises and
   returns no tensor. *)
C7_BadStrideRaises ==
  (last = "conv" /\ (sh < 1 \/ sw < 1)) => ret.kind = "error"

(* The input with ph zero rows above and below and pw zero columns left and
   right *)
ZeroPadded ==
  [h |-> X.h + 2 * conv.pad[0], w |-> X.w + 2 * conv.pad[1],
   d |-> [p \in Cells(X.h + 2 * conv.pad[0], X.w + 2 * conv.pad[1]) |->
            IF /\ conv.pad[0] <= p[1] /\ p[1] < conv.pad[0] + X.h
               /\ conv.pad[1] <= p[2] /\ p[2] < conv.pad[1] + X.w
            THEN X.d[<<p[1] - conv.pad[0], p[2] - conv.pad[1]>>]
            ELSE 0]]

(* C11: in a valid configuration Conv(x)[i,j] is corr2d(P, weights)[i*sh,
   j*sw] plus the bias, P being x zero-padded by (ph, pw); with pad (0, 0),
   stride (1, 1) and the bias disabled, Conv(x) is corr2d(x, weights) in
   shape and in every element. *)
C11_ConvSamplesCorr2d ==
  (last = "conv" /\ ValidConfig) =>
    LET full == corr2d(ZeroPadded, conv.weights).ret
    IN /\ ret.kind = "tensor"
       /\ full.kind = "tensor"
       /\ \A p \in DOMAIN ret.val.d :
            /\ <<p[1] * sh, p[2] * sw>> \in DOMAIN full.val.d
            /\ ret.val.d[p] = full.val.d[<<p[1] * sh, p[2] * sw>>] + conv.bias
       /\ (/\ conv.pad = Pair(0, 0) /\ conv.stride = Pair(1, 1)
           /\ conv.bias = 0)
            => ret = corr2d(X, conv.weights).ret

C11_Witness ==
  /\ last = "conv" /\ ValidConfig
  /\ conv.pad = Pair(1, 0) /\ conv.stride = Pair(2, 2) /\ conv.bias = 3
  /\ X.h = 3 /\ X.w = 3 /\ kh = 2 /\ kw = 2
  /\ ret.kind = "tensor" /\ ret.val.h = 2 /\ ret.val.w = 1
  /\ ret.val.d[<<1, 0>>]
       = corr2d(ZeroPadded, conv.weights).ret.val.d[<<2, 0>>] + 3
  /\ corr2d(ZeroPadded, conv.weights).ret.val.d[<<2, 0>>]
       # corr2d(ZeroPadded, conv.weights).ret.val.d[<<1, 0>>]

====
